---------------------------- MODULE Spec2Model ----------------------------
(***************************************************************************)
(* A model of the mention-handling pipeline of masto-chatbot (src/main.go).*)
(*                                                                         *)
(* Strings are sequences of one-character strings, so that the string      *)
(* functions of the program (strings.ReplaceAll, strings.TrimSpace,        *)
(* regexp replacement, sort.Strings) are computed as the program computes  *)
(* them.                                                                   *)
(***************************************************************************)
EXTENDS Integers, Sequences, FiniteSets, TLC

VARIABLES
    pc,            \* where the program is: the event loop or a place in handleMention
    notification,  \* the notification handleMention was called with
    mentions,      \* handleMention's local mentions (line 142)
    maxDepth,      \* getConversationContext's parameter
    currentStatus, \* getConversationContext's local
    i,             \* getConversationContext's loop counter
    context,       \* getConversationContext's local: the context lines
    allImages,     \* getConversationContext's local: the attachments
    promptAI,      \* generateAIResponse's local: the prompt parts
    imgIdx,        \* generateAIResponse's loop index over images
    content,       \* handleMention's local content (line 142)
    response,      \* handleMention's local response
    err,           \* handleMention's local err after generateAIResponse
    lookups,       \* the c.GetStatus calls made for the current event
    downloads,     \* the http.Get calls made for the current event
    completions,   \* the model.GenerateContent calls made for the current event
    posts,         \* the c.PostStatus calls made for the current event
    fnPc,          \* the position of a direct call of one function
    fnIn,          \* its argument
    fnOut          \* its results, in call order

vars == <<pc, notification, mentions, content, maxDepth, currentStatus, i, context,
          allImages, promptAI, imgIdx, response, err, lookups, downloads,
          completions, posts, fnPc, fnIn, fnOut>>

handlerVars == <<pc, notification, mentions, content, maxDepth, currentStatus, i, context,
                 allImages, promptAI, imgIdx, response, err, lookups, downloads,
                 completions, posts>>

fnVars == <<fnPc, fnIn, fnOut>>

\* A nil error, and a nil pointer: a pointer is a sequence of no or one value.
Nil == "nil"

NilPointer == <<>>

PointerTo(value) == <<value>>

Deref(pointer) == pointer[1]

---------------------------------------------------------------------------
(* Bounds of the model. *)

\* The longest string given to cleanResponse directly.
MaxLen == 5

---------------------------------------------------------------------------
(* Strings. *)

RECURSIVE SeqsUpTo(_, _)
SeqsUpTo(S, n) ==
    IF n = 0 THEN {<<>>}
    ELSE LET shorter == SeqsUpTo(S, n - 1)
         IN  shorter \cup {Append(s, c) : s \in {t \in shorter : Len(t) = n - 1}, c \in S}

\* strings.HasPrefix
HasPrefix(s, prefix) ==
    Len(s) >= Len(prefix) /\ SubSeq(s, 1, Len(prefix)) = prefix

\* strings.Contains
Contains(s, sub) ==
    \E k \in 1..(Len(s) - Len(sub) + 1) : SubSeq(s, k, k + Len(sub) - 1) = sub

\* strings.ReplaceAll, for a non-empty old: the non-overlapping occurrences of
\* old, found from the left, are replaced by new.
RECURSIVE ReplaceAll(_, _, _)
ReplaceAll(s, old, new) ==
    IF Len(s) < Len(old) THEN s
    ELSE IF HasPrefix(s, old)
         THEN new \o ReplaceAll(SubSeq(s, Len(old) + 1, Len(s)), old, new)
         ELSE <<Head(s)>> \o ReplaceAll(Tail(s), old, new)

\* unicode.IsSpace, on the characters of the model.
IsSpace(c) == c \in {" ", "\t", "\n", "\r"}

RECURSIVE TrimLeft(_)
TrimLeft(s) == IF s # <<>> /\ IsSpace(Head(s)) THEN TrimLeft(Tail(s)) ELSE s

RECURSIVE TrimRight(_)
TrimRight(s) ==
    IF s # <<>> /\ IsSpace(s[Len(s)]) THEN TrimRight(SubSeq(s, 1, Len(s) - 1)) ELSE s

\* strings.TrimSpace
TrimSpace(s) == TrimRight(TrimLeft(s))

---------------------------------------------------------------------------
(* cleanResponse, lines 200-219. *)

\* The characters of the model in the Unicode categories So and Sk, which the
\* regular expression [\p{So}\p{Sk}] matches: U+005E is in Sk.
IsEmoji(c) == c \in {"^"}

\* emojiRegex.ReplaceAllString(response, ""), lines 202-203.
RemoveEmojis(s) == SelectSeq(s, LAMBDA c : ~IsEmoji(c))

\* One replacement of two spaces by one, where the program repeats it until
\* no two spaces are left.
FixDoubleSpacesOnce(s) == ReplaceAll(s, <<" ", " ">>, <<" ">>)

\* The loop of lines 206-208.
RECURSIVE FixDoubleSpaces(_)
FixDoubleSpaces(s) ==
    IF Contains(s, <<" ", " ">>)
    THEN FixDoubleSpaces(ReplaceAll(s, <<" ", " ">>, <<" ">>))
    ELSE s

\* A cleanResponse without line 212: a period keeps the space that follows it
\* and is given another one.
FixSpaceAfterPeriodKeeping(s) ==
    ReplaceAll(ReplaceAll(s, <<".", " ", " ">>, <<".", " ">>), <<".">>, <<".", " ">>)

\* The three replacements of lines 211-213.
FixSpaceAfterPeriod(s) ==
    ReplaceAll(
        ReplaceAll(
            ReplaceAll(s, <<".", " ", " ">>, <<".", " ">>),
            <<".", " ">>, <<".">>),
        <<".">>, <<".", " ">>)

cleanResponse(s) ==
    TrimSpace(FixSpaceAfterPeriod(FixDoubleSpaces(RemoveEmojis(s))))

\* The characters of the strings given to cleanResponse: a space, a period, a
\* letter, a symbol of category Sk, and a white space that is no space.
CleanAlphabet == {" ", ".", "a", "^", "\n"}

CleanInputs == SeqsUpTo(CleanAlphabet, MaxLen)

---------------------------------------------------------------------------
(* The configuration read from the environment, and the allow-listed handle. *)

\* os.Getenv("MASTODON_USERNAME"): "bot"
botUsername == <<"b", "o", "t">>

\* os.Getenv("MASTODON_SERVER"): "https://f.w"
mastodonServer == <<"h", "t", "t", "p", "s", ":", "/", "/", "f", ".", "w">>

\* The handle whose direct messages are answered, line 138: "micr0"
allowedHandle == <<"m", "i", "c", "r", "0">>

\* The message posted when generateAIResponse fails, line 152.
fallbackResponse ==
    <<"s", "h", "i", "t", " ", "f", "u", "c", "k", ".", ".", " ", "s",
    "o", "m", "e", "t", "h", "i", "n", "g", " ", "w", "e", "n", "t", " ",
    "w", "r", "o", "n", "g", ".", " ", "t", "r", "y", " ", "a", "g", "a",
    "i", "n", " ", "l", "a", "t", "e", "r", "?">>

---------------------------------------------------------------------------
(* prependMentions, lines 264-299. *)

\* The pieces of s between the occurrences of sep, as strings.Split gives them.
RECURSIVE SplitFrom(_, _, _)
SplitFrom(s, sep, piece) ==
    IF Len(s) < Len(sep) THEN <<piece \o s>>
    ELSE IF HasPrefix(s, sep)
         THEN <<piece>> \o SplitFrom(SubSeq(s, Len(sep) + 1, Len(s)), sep, <<>>)
         ELSE SplitFrom(Tail(s), sep, Append(piece, Head(s)))

Split(s, sep) == SplitFrom(s, sep, <<>>)

\* Line 266.
localInstance == Split(mastodonServer, <<"/", "/">>)[2]

\* The byte of a character, which sort.Strings compares.
Code(c) ==
    CASE c = " " -> 32
      [] c = "-" -> 45
      [] c = "." -> 46
      [] c = "0" -> 48
      [] c = "@" -> 64
      [] c = "_" -> 95
      [] c = "a" -> 97
      [] c = "b" -> 98
      [] c = "c" -> 99
      [] c = "f" -> 102
      [] c = "i" -> 105
      [] c = "l" -> 108
      [] c = "m" -> 109
      [] c = "o" -> 111
      [] c = "r" -> 114
      [] c = "t" -> 116
      [] c = "w" -> 119
      [] c = "z" -> 122

\* a < b, as Go compares strings: byte by byte, a proper prefix first.
RECURSIVE StringLess(_, _)
StringLess(a, b) ==
    IF b = <<>> THEN FALSE
    ELSE IF a = <<>> THEN TRUE
    ELSE IF Head(a) = Head(b) THEN StringLess(Tail(a), Tail(b))
    ELSE Code(Head(a)) < Code(Head(b))

\* sort.Strings on the keys of a map: the strings of S in increasing order.
RECURSIVE SortStrings(_)
SortStrings(S) ==
    IF S = {} THEN <<>>
    ELSE LET least == CHOOSE a \in S : \A b \in S \ {a} : StringLess(a, b)
         IN  <<least>> \o SortStrings(S \ {least})

\* strings.Join
RECURSIVE Join(_, _)
Join(list, sep) ==
    IF list = <<>> THEN <<>>
    ELSE IF Len(list) = 1 THEN list[1]
    ELSE list[1] \o sep \o Join(Tail(list), sep)

\* The key a handle is entered under in mentionSet, lines 274-278 and 282-286.
MentionKey(mention) ==
    IF Contains(mention, <<"@">>)
    THEN <<"@">> \o mention
    ELSE <<"@">> \o mention \o <<"@">> \o localInstance

\* The thread mentions that are entered in mentionSet, lines 269-279.
ThreadKeys(threadMentions) ==
    {MentionKey(threadMentions[k]) :
        k \in {j \in 1..Len(threadMentions) : threadMentions[j] # botUsername}}

\* The original author's entry in mentionSet, lines 281-287.
OriginalKeys(originalMention) ==
    IF originalMention # botUsername THEN {MentionKey(originalMention)} ELSE {}

\* The local uniqueMentions after line 293.
uniqueMentions(threadMentions, originalMention) ==
    SortStrings(ThreadKeys(threadMentions) \cup OriginalKeys(originalMention))

prependMentions(threadMentions, originalMention, resp) ==
    LET unique == uniqueMentions(threadMentions, originalMention)
    IN  IF Len(unique) > 0 THEN Join(unique, <<" ">>) \o <<" ">> \o resp ELSE resp

\* The longest list of thread mentions given to prependMentions directly.
MaxMentions == 2

\* Handles as the network gives them: bare for a local account, with the
\* domain for a remote one; and the bot's handle with the local domain.
Handles ==
    { botUsername,
      botUsername \o <<"@">> \o localInstance,
      allowedHandle,
      <<"a", "l">>,
      <<"z", "@", "o", ".", "r">> }

---------------------------------------------------------------------------
(* extractMentions, lines 257-262. *)

\* The characters of the class [\w\.-].
IsHandleChar(c) ==
    c \in { "a", "b", "c", "d", "e", "f", "g", "h", "i", "j", "k", "l", "m", "n",
            "o", "p", "q", "r", "s", "t", "u", "v", "w", "x", "y", "z", "0", "1",
            "2", "3", "4", "5", "6", "7", "8", "9", "_", ".", "-" }

\* The length of the longest prefix of s made of characters of [\w\.-].
RECURSIVE HandleRun(_)
HandleRun(s) ==
    IF s # <<>> /\ IsHandleChar(Head(s)) THEN 1 + HandleRun(Tail(s)) ELSE 0

\* The length of the match of @[\w\.-]+(@[\w\.-]+)? at the start of s, 0 when
\* there is none: both repetitions are greedy, and the group is taken when it
\* matches.
MatchLength(s) ==
    IF s = <<>> \/ Head(s) # "@" THEN 0
    ELSE LET local == HandleRun(Tail(s))
             rest == SubSeq(s, local + 2, Len(s))
             domain == IF rest # <<>> /\ Head(rest) = "@" THEN HandleRun(Tail(rest)) ELSE 0
         IN  IF local = 0 THEN 0
             ELSE IF domain > 0 THEN 1 + local + 1 + domain
             ELSE 1 + local

\* re.ReplaceAllString(content, ""), line 260.
RECURSIVE RemoveMatches(_)
RemoveMatches(s) ==
    IF s = <<>> THEN <<>>
    ELSE IF MatchLength(s) > 0 THEN RemoveMatches(SubSeq(s, MatchLength(s) + 1, Len(s)))
    ELSE <<Head(s)>> \o RemoveMatches(Tail(s))

\* re.FindAllString(content, -1), line 259.
RECURSIVE FindMatches(_)
FindMatches(s) ==
    IF s = <<>> THEN <<>>
    ELSE IF MatchLength(s) > 0
         THEN <<SubSeq(s, 1, MatchLength(s))>>
                  \o FindMatches(SubSeq(s, MatchLength(s) + 1, Len(s)))
    ELSE FindMatches(Tail(s))

extractMentions(text) ==
    [mentions |-> FindMatches(text), cleanContent |-> TrimSpace(RemoveMatches(text))]

---------------------------------------------------------------------------
(* Statuses, attachments and events. *)

\* The most statuses above the triggering status in its thread.
MaxChain == 3

\* The most thread mentions the triggering status declares.
MaxThreadMentions == 1

\* The largest depth bound given to getConversationContext directly.
MaxDepthArg == 3

\* The depth bound handleMention gives to getConversationContext, line 146.
contextDepth == 20

Min(a, b) == IF a < b THEN a ELSE b

\* strings.HasSuffix
HasSuffix(s, suffix) ==
    Len(s) >= Len(suffix) /\ SubSeq(s, Len(s) - Len(suffix) + 1, Len(s)) = suffix

\* A status identifier (a string in the program): the empty identifier is <<>>.
IdOf(k) == <<k>>

EmptyID == <<>>

\* A reply-parent of dynamic type: no value, or a value of some type.
NoParent == [type |-> "nil", id |-> EmptyID]

\* An image of a supported type, with alt text.
AttPng ==
    [Type |-> <<"i", "m", "a", "g", "e", "/", "p", "n", "g">>,
     URL |-> <<"a", ".", "p", "n", "g">>,
     Description |-> <<"a", "l", "t">>]

\* An image of a supported type, whose URL has no extension.
AttJpeg ==
    [Type |-> <<"i", "m", "a", "g", "e", "/", "j", "p", "e", "g">>,
     URL |-> <<"b">>,
     Description |-> <<>>]

\* An attachment that is no image.
AttVideo ==
    [Type |-> <<"v", "i", "d", "e", "o", "/", "m", "p", "4">>,
     URL |-> <<"c", ".", "m", "p", "4">>,
     Description |-> <<>>]

Account(acct) ==
    [Acct |-> acct, Username |-> Split(acct, <<"@">>)[1]]

\* The status with identifier IdOf(k) on the network, k in 1..MaxChain: a reply to
\* the status before it, the first one a reply to nothing. The reply-parent is
\* a string or a mastodon.ID, both of which the upstream source gives.
Store(k) ==
    [ID |-> IdOf(k),
     Account |-> Account(<<"z", "@", "o", ".", "r">>),
     Content |-> <<"<", "p", ">">> \o << <<"a", "b", "c", "d", "e", "f", "g", "h">>[k] >>
                     \o <<"<", "/", "p", ">">>,
     Visibility |-> "public",
     InReplyToID |-> IF k = 1 THEN NoParent
                     ELSE [type |-> IF k % 2 = 0 THEN "string" ELSE "ID", id |-> IdOf(k - 1)],
     MediaAttachments |-> IF k = 2 THEN <<AttVideo>> ELSE <<>>,
     Mentions |-> <<>>,
     SpoilerText |-> <<>>]

\* The reply-parent of a triggering status: none, or a status of the network,
\* as a string, as a mastodon.ID, or as a value of another type.
ReplyParents ==
    {NoParent} \cup [type : {"string", "ID", "float64"}, id : {IdOf(k) : k \in 1..MaxChain}]

\* The accounts that mention the bot: the bot itself, the allow-listed handle
\* and another local account.
Authors == {botUsername, allowedHandle, <<"a", "l">>}

Visibilities == {"public", "unlisted", "private", "direct"}

\* The triggering statuses.
Statuses ==
    [ID : {IdOf(0)},
     Account : {Account(a) : a \in Authors},
     Content : {<<"<", "p", ">", "h", "i", "<", "/", "p", ">">>},
     Visibility : Visibilities,
     InReplyToID : ReplyParents,
     MediaAttachments : {<<>>, <<AttPng>>, <<AttVideo, AttJpeg>>},
     Mentions : SeqsUpTo({[Acct |-> botUsername], [Acct |-> <<"z", "@", "o", ".", "r">>]},
                         MaxThreadMentions),
     SpoilerText : {<<"c", "w">>}]

\* The events of the stream: a mention, or an event of another kind.
MentionEvents ==
    {[kind |-> "NotificationEvent",
      Notification |-> [Type |-> "mention", Account |-> st.Account, Status |-> st]] :
        st \in Statuses}

OtherEvents ==
    {[kind |-> "NotificationEvent", Notification |-> [Type |-> "favourite"]],
     [kind |-> "ErrorEvent"], [kind |-> "DeleteEvent"], [kind |-> "UpdateEvent"]}

---------------------------------------------------------------------------
(* extractTextFromHTML and extractContent, lines 180-198 and 244-255. *)

\* The text nodes of the markup in document order: what is outside the tags.
RECURSIVE TextOutsideTags(_, _)
TextOutsideTags(s, inTag) ==
    IF s = <<>> THEN <<>>
    ELSE IF Head(s) = "<" THEN TextOutsideTags(Tail(s), TRUE)
    ELSE IF Head(s) = ">" /\ inTag THEN TextOutsideTags(Tail(s), FALSE)
    ELSE IF inTag THEN TextOutsideTags(Tail(s), TRUE)
    ELSE <<Head(s)>> \o TextOutsideTags(Tail(s), FALSE)

extractTextFromHTML(markup) == TextOutsideTags(markup, FALSE)

extractContent(status) ==
    [mentions |-> [k \in 1..Len(status.Mentions) |-> status.Mentions[k].Acct],
     content |-> extractTextFromHTML(TrimSpace(status.Content))]

---------------------------------------------------------------------------
(* The event loop of main, lines 57-72, and the filter of handleMention. *)

\* The locals of handleMention and of the functions it calls, before a call.
NoCall ==
    /\ mentions = <<>>
    /\ content = <<>>
    /\ maxDepth = 0
    /\ currentStatus = NilPointer
    /\ i = 0
    /\ context = <<>>
    /\ allImages = <<>>
    /\ promptAI = <<>>
    /\ imgIdx = 0
    /\ response = <<>>
    /\ err = Nil
    /\ lookups = <<>>
    /\ downloads = <<>>
    /\ completions = <<>>
    /\ posts = <<>>

\* The locals are those of a new call.
NewCall ==
    /\ mentions' = <<>>
    /\ content' = <<>>
    /\ maxDepth' = 0
    /\ currentStatus' = NilPointer
    /\ i' = 0
    /\ context' = <<>>
    /\ allImages' = <<>>
    /\ promptAI' = <<>>
    /\ imgIdx' = 0
    /\ response' = <<>>
    /\ err' = Nil
    /\ lookups' = <<>>
    /\ downloads' = <<>>
    /\ completions' = <<>>
    /\ posts' = <<>>

Init ==
    /\ pc = "loop"
    /\ notification = NilPointer
    /\ NoCall
    /\ fnPc = "none"
    /\ fnIn = <<>>
    /\ fnOut = <<>>

\* The stream yields an event, lines 57-71: a mention is given to
\* handleMention, an event of another kind is logged.
Receive ==
    /\ pc = "loop"
    /\ \E event \in MentionEvents \cup OtherEvents :
          IF event.kind = "NotificationEvent" /\ event.Notification.Type = "mention"
          THEN pc' = "handleMention" /\ notification' = PointerTo(event.Notification)
          ELSE pc' = "loop" /\ notification' = NilPointer
    /\ UNCHANGED <<mentions, content, maxDepth, currentStatus, i, context, allImages,
                   promptAI, imgIdx, response, err, lookups, downloads, completions,
                   posts, fnVars>>

\* handleMention has returned: its locals are no more, and the loop waits for
\* the next event.
Return ==
    /\ pc = "returned"
    /\ pc' = "loop"
    /\ notification' = NilPointer
    /\ NewCall
    /\ UNCHANGED fnVars

\* The stream is closed: the loop over it ends and main returns.
StreamClosed ==
    /\ pc = "loop"
    /\ pc' = "exit"
    /\ UNCHANGED <<notification, mentions, content, maxDepth, currentStatus, i, context,
                   allImages, promptAI, imgIdx, response, err, lookups, downloads,
                   completions, posts, fnVars>>

\* A filter that answers every direct message.
IgnoresOnlySelfAndPrivate(n) ==
    \/ n.Account.Acct = botUsername
    \/ n.Status.Visibility = "private"

\* The condition of line 138.
IsIgnored(n) ==
    \/ n.Account.Acct = botUsername
    \/ (n.Status.Visibility = "direct" /\ n.Account.Acct # allowedHandle)
    \/ n.Status.Visibility = "private"

\* handleMention, lines 136-146: the filter, extractContent and the call of
\* getConversationContext.
HandleMention ==
    /\ pc = "handleMention"
    /\ IF IsIgnored(Deref(notification))
       THEN /\ pc' = "returned"
            /\ UNCHANGED <<mentions, content, maxDepth, currentStatus, i>>
       ELSE /\ mentions' = extractContent(Deref(notification).Status).mentions
            /\ content' = extractContent(Deref(notification).Status).content
            /\ maxDepth' = contextDepth
            /\ currentStatus' = PointerTo(Deref(notification).Status)
            /\ i' = 0
            /\ pc' = "walk"
    /\ UNCHANGED <<notification, context, allImages, promptAI, imgIdx, response, err,
                   lookups, downloads, completions, posts, fnVars>>

---------------------------------------------------------------------------
(* getConversationContext, lines 302-337. *)

\* The context line of a status, line 309.
ContextLine(status) ==
    status.Account.Username \o <<":", " ">> \o extractTextFromHTML(status.Content)

\* A loop that runs once more than the depth bound allows.
LoopConditionInclusive(n, depth, status) == n <= depth /\ status # NilPointer

\* The condition of the loop, line 307.
LoopCondition(n, depth, status) == n < depth /\ status # NilPointer

\* The identifier looked up for a reply-parent, lines 317-325: the empty
\* identifier when it is neither a string nor a mastodon.ID.
ParentID(inReplyToID) ==
    IF inReplyToID.type \in {"string", "ID"} THEN inReplyToID.id ELSE EmptyID

\* The identifiers c.GetStatus can find a status for.
StoredIDs == {IdOf(k) : k \in 1..MaxChain}

StatusOf(id) == Store(CHOOSE k \in 1..MaxChain : IdOf(k) = id)

\* A walk that gives up what it collected when a lookup fails.
LookupFailedDroppingContext(lines, images) ==
    /\ context' = <<>>
    /\ allImages' = <<>>
    /\ pc' = "walked"
    /\ UNCHANGED <<currentStatus, i>>

\* The break of line 330: the lines and attachments collected stay.
LookupFailed(lines, images) ==
    /\ context' = lines
    /\ allImages' = images
    /\ pc' = "walked"
    /\ UNCHANGED <<currentStatus, i>>

\* One evaluation of the loop condition and, when it holds, one run of the
\* loop body. c.GetStatus fails or, for the identifier of a status of the
\* network, gives the status.
WalkStep ==
    /\ pc = "walk"
    /\ IF ~LoopCondition(i, maxDepth, currentStatus)
       THEN /\ pc' = "walked"
            /\ UNCHANGED <<currentStatus, i, context, allImages, lookups>>
       ELSE LET status == Deref(currentStatus)
                lines == <<ContextLine(status)>> \o context
                images == allImages \o status.MediaAttachments
            IN  IF status.InReplyToID = NoParent
                THEN /\ context' = lines
                     /\ allImages' = images
                     /\ pc' = "walked"
                     /\ UNCHANGED <<currentStatus, i, lookups>>
                ELSE LET parentID == ParentID(status.InReplyToID)
                     IN  \E found \in {FALSE} \cup {parentID \in StoredIDs} :
                            /\ lookups' = Append(lookups, [id |-> parentID, ok |-> found])
                            /\ IF found
                               THEN /\ context' = lines
                                    /\ allImages' = images
                                    /\ currentStatus' = PointerTo(StatusOf(parentID))
                                    /\ i' = i + 1
                                    /\ pc' = "walk"
                               ELSE LookupFailed(lines, images)
    /\ UNCHANGED <<notification, mentions, content, maxDepth, promptAI, imgIdx, response,
                   err, downloads, completions, posts, fnIn, fnPc, fnOut>>

\* The return of line 336: to handleMention, or to a direct caller.
WalkReturn ==
    /\ pc = "walked"
    /\ IF fnPc = "walk"
       THEN /\ fnOut' = <<[context |-> context, images |-> allImages]>>
            /\ fnPc' = "done"
            /\ pc' = "done"
       ELSE /\ pc' = "generate"
            /\ UNCHANGED <<fnPc, fnOut>>
    /\ UNCHANGED <<notification, mentions, content, maxDepth, currentStatus, i, context,
                   allImages, promptAI, imgIdx, response, err, lookups, downloads,
                   completions, posts, fnIn>>

---------------------------------------------------------------------------
(* generateAIResponse and downloadImage, lines 221-242 and 340-409. *)

isSupportedImageType(mediaType) ==
    \/ mediaType = <<"i", "m", "a", "g", "e", "/", "j", "p", "e", "g">>
    \/ mediaType = <<"i", "m", "a", "g", "e", "/", "p", "n", "g">>
    \/ mediaType = <<"i", "m", "a", "g", "e", "/", "w", "e", "b", "p">>

getMediaTypeDescription(mediaType) ==
    IF HasPrefix(mediaType, <<"i", "m", "a", "g", "e", "/">>) THEN "image"
    ELSE IF HasPrefix(mediaType, <<"v", "i", "d", "e", "o", "/">>) THEN "video"
    ELSE IF HasPrefix(mediaType, <<"a", "u", "d", "i", "o", "/">>) THEN "audio file"
    ELSE "file"

\* The format tag downloadImage infers from the URL, lines 396-401.
FileExtension(url) ==
    IF HasSuffix(url, <<".", "p", "n", "g">>) THEN <<"p", "n", "g">>
    ELSE IF HasSuffix(url, <<".", "w", "e", "b", "p">>) THEN <<"w", "e", "b", "p">>
    ELSE <<"j", "p", "e", "g">>

\* The bytes a successful fetch of url reads: some bytes, never none.
BodyOf(url) == <<"bytes of", url>>

\* What http.Get and io.ReadAll do for one download: both succeed, http.Get
\* fails, or io.ReadAll fails.
DownloadOutcomes == {"ok", "getError", "readError"}

\* downloadImage, lines 389-409: (img, fileExtension, err). After either error
\* it returns nil, "", nil: no bytes, no format tag, and no error.
downloadImage(url, outcome) ==
    IF outcome = "getError" THEN [img |-> <<>>, fileExtension |-> <<>>, err |-> Nil]
    ELSE IF outcome = "readError" THEN [img |-> <<>>, fileExtension |-> <<>>, err |-> Nil]
    ELSE [img |-> BodyOf(url), fileExtension |-> FileExtension(url), err |-> Nil]

\* genai.ImageData(format, data): a blob of MIME type "image/" + format.
ImageData(format, data) ==
    [part |-> "image", format |-> format,
     MIMEType |-> <<"i", "m", "a", "g", "e", "/">> \o format, Data |-> data]

\* The parts of lines 343-355: the persona, the number of images when there
\* are any, the header and the context lines.
PromptHead(lines, images) ==
    <<[part |-> "text", text |-> "systemPrompt"]>>
    \o (IF Len(images) > 0
        THEN <<[part |-> "text", text |-> "There are %d images", n |-> Len(images)]>>
        ELSE <<>>)
    \o <<[part |-> "text", text |-> "Here is the conversation:"]>>
    \o [k \in 1..Len(lines) |-> [part |-> "text", text |-> "msg", msg |-> lines[k]]]

\* The parts of lines 363-367 for a downloaded image.
ImageParts(attachment, index, download) ==
    <<ImageData(download.fileExtension, download.img),
      [part |-> "text", text |-> "Image %d: ", n |-> index]>>
    \o (IF attachment.Description # <<>>
        THEN <<[part |-> "text", text |-> "Image alt text: ", alt |-> attachment.Description]>>
        ELSE <<>>)

\* The part of lines 369-373 for an attachment of no supported type.
PlaceholderParts(attachment, index) ==
    <<[part |-> "text", text |-> "Image %d: [User uploaded %s that cannot be viewed]",
       n |-> index, media |-> getMediaTypeDescription(attachment.Type),
       alt |-> attachment.Description]>>

\* The parts of lines 377-379: the user's turn and the cue.
PromptTail(user, prompt) ==
    <<[part |-> "text", text |-> "user: prompt", user |-> user, prompt |-> prompt],
      [part |-> "text", text |-> "Macr0:"]>>

\* generateAIResponse, lines 341-355.
GenerateStart ==
    /\ pc = "generate"
    /\ promptAI' = PromptHead(context, allImages)
    /\ imgIdx' = 1
    /\ pc' = "images"
    /\ UNCHANGED <<notification, mentions, content, maxDepth, currentStatus, i, context,
                   allImages, response, err, lookups, downloads, completions, posts,
                   fnVars>>

\* One run of the loop of lines 357-375, or lines 377-379 after its last run.
ImageStep ==
    /\ pc = "images"
    /\ IF imgIdx > Len(allImages)
       THEN /\ promptAI' = promptAI \o PromptTail(Deref(notification).Account.Username, content)
            /\ pc' = "complete"
            /\ UNCHANGED <<imgIdx, response, err, downloads>>
       ELSE LET attachment == allImages[imgIdx]
            IN  IF isSupportedImageType(attachment.Type)
                THEN \E outcome \in DownloadOutcomes :
                        LET download == downloadImage(attachment.URL, outcome)
                        IN  /\ downloads' = Append(downloads,
                                                   [url |-> attachment.URL, outcome |-> outcome])
                            /\ IF download.err # Nil
                               THEN /\ response' = <<>>
                                    /\ err' = download.err
                                    /\ pc' = "generated"
                                    /\ UNCHANGED <<promptAI, imgIdx>>
                               ELSE /\ promptAI' = promptAI \o ImageParts(attachment, imgIdx, download)
                                    /\ imgIdx' = imgIdx + 1
                                    /\ pc' = "images"
                                    /\ UNCHANGED <<response, err>>
                ELSE /\ promptAI' = promptAI \o PlaceholderParts(attachment, imgIdx)
                     /\ imgIdx' = imgIdx + 1
                     /\ pc' = "images"
                     /\ UNCHANGED <<response, err, downloads>>
    /\ UNCHANGED <<notification, mentions, content, maxDepth, currentStatus, i, context,
                   allImages, lookups, completions, posts, fnVars>>

\* The texts the completion capability answers with.
AIResponses ==
    { <<"o", "k">>,
      <<"@", "a", "l", " ", "y", "o", ".", " ", " ", "^", "n", "o">>,
      <<"a", " ", ".", "b", " ", "@", "b", "o", "t", "@", "f", ".", "w">> }

\* model.GenerateContent, lines 381-386: an error, or a text.
Complete ==
    /\ pc = "complete"
    /\ \E answer \in {[ok |-> FALSE, text |-> <<>>]}
                          \cup {[ok |-> TRUE, text |-> text] : text \in AIResponses} :
          /\ completions' = Append(completions, [prompt |-> promptAI, ok |-> answer.ok])
          /\ response' = answer.text
          /\ err' = IF answer.ok THEN Nil ELSE "completion error"
    /\ pc' = "generated"
    /\ UNCHANGED <<notification, mentions, content, maxDepth, currentStatus, i, context,
                   allImages, promptAI, imgIdx, lookups, downloads, posts, fnVars>>

---------------------------------------------------------------------------
(* handleMention, lines 150-177. *)

\* A reply whose fallback message is posted without the mentions.
replyBodyBareFallback(threadMentions, acct, resp, e) ==
    IF e # Nil THEN fallbackResponse
    ELSE prependMentions(threadMentions, acct,
                         cleanResponse(extractMentions(resp).cleanContent))

\* Lines 150-158: the fallback message or the cleaned response, after the
\* mentions.
replyBody(threadMentions, acct, resp, e) ==
    prependMentions(threadMentions, acct,
                    IF e # Nil THEN fallbackResponse
                    ELSE cleanResponse(extractMentions(resp).cleanContent))

\* A reply as visible as the status it answers.
replyVisibilityKept(visibility) == visibility

\* Lines 160-164.
replyVisibility(visibility) ==
    IF visibility = "public" THEN "unlisted" ELSE visibility

\* Lines 150-164.
PostProcess ==
    /\ pc = "generated"
    /\ response' = replyBody(mentions, Deref(notification).Account.Acct, response, err)
    /\ pc' = "post"
    /\ UNCHANGED <<notification, mentions, content, maxDepth, currentStatus, i, context,
                   allImages, promptAI, imgIdx, err, lookups, downloads, completions,
                   posts, fnVars>>

\* A handler that posts again when posting failed.
AfterPostRetrying(posted) == pc' = IF posted THEN "returned" ELSE "post"

\* Lines 173-178: the outcome is logged and handleMention returns.
AfterPost(posted) == pc' = "returned"

\* c.PostStatus, lines 166-171, which succeeds or fails.
Post ==
    /\ pc = "post"
    /\ \E posted \in BOOLEAN :
          /\ posts' = Append(posts,
                             [toot |-> [Status |-> response,
                                        InReplyToID |-> Deref(notification).Status.ID,
                                        Visibility |->
                                            replyVisibility(Deref(notification).Status.Visibility),
                                        SpoilerText |-> Deref(notification).Status.SpoilerText],
                              ok |-> posted])
          /\ err' = IF posted THEN Nil ELSE "post error"
          /\ AfterPost(posted)
    /\ UNCHANGED <<notification, mentions, content, maxDepth, currentStatus, i, context,
                   allImages, promptAI, imgIdx, response, lookups, downloads, completions,
                   fnVars>>

---------------------------------------------------------------------------
(* The specifications. *)

\* The event loop and the handling of each mention.
Next ==
    \/ Receive
    \/ Return
    \/ StreamClosed
    \/ HandleMention
    \/ WalkStep
    \/ WalkReturn
    \/ GenerateStart
    \/ ImageStep
    \/ Complete
    \/ PostProcess
    \/ Post

Spec == Init /\ [][Next]_vars


---------------------------------------------------------------------------
(* The functions called alone, on any argument. *)

\* A call of getConversationContext on any triggering status and depth bound.
InitWalk ==
    /\ fnPc = "walk"
    /\ fnIn \in [status : {st \in Statuses : st.Account.Acct = allowedHandle
                                            /\ st.Visibility = "public"
                                            /\ st.Mentions = <<>>},
                 maxDepth : 0..MaxDepthArg]
    /\ fnOut = <<>>
    /\ pc = "walk"
    /\ notification = NilPointer
    /\ mentions = <<>>
    /\ content = <<>>
    /\ maxDepth = fnIn.maxDepth
    /\ currentStatus = PointerTo(fnIn.status)
    /\ i = 0
    /\ context = <<>>
    /\ allImages = <<>>
    /\ promptAI = <<>>
    /\ imgIdx = 0
    /\ response = <<>>
    /\ err = Nil
    /\ lookups = <<>>
    /\ downloads = <<>>
    /\ completions = <<>>
    /\ posts = <<>>

NextWalk == WalkStep \/ WalkReturn

SpecWalk == InitWalk /\ [][NextWalk]_vars

\* A call of cleanResponse on any string, and then on its own result.
InitClean ==
    /\ fnPc = "clean"
    /\ fnIn \in CleanInputs
    /\ fnOut = <<>>
    /\ pc = "none"
    /\ notification = NilPointer
    /\ NoCall

CleanOnce ==
    /\ fnPc = "clean"
    /\ fnOut' = <<cleanResponse(fnIn)>>
    /\ fnPc' = "cleanAgain"
    /\ UNCHANGED <<fnIn, handlerVars>>

CleanTwice ==
    /\ fnPc = "cleanAgain"
    /\ fnOut' = Append(fnOut, cleanResponse(fnOut[1]))
    /\ fnPc' = "done"
    /\ UNCHANGED <<fnIn, handlerVars>>

NextClean == CleanOnce \/ CleanTwice

SpecClean == InitClean /\ [][NextClean]_vars

\* A call of prependMentions on any thread mentions and original author.
InitMentions ==
    /\ fnPc = "prepend"
    /\ fnIn \in [mentions : SeqsUpTo(Handles, MaxMentions), originalMention : Handles]
    /\ fnOut = <<>>
    /\ pc = "none"
    /\ notification = NilPointer
    /\ NoCall

CallPrependMentions ==
    /\ fnPc = "prepend"
    /\ fnOut' = << [uniqueMentions |-> uniqueMentions(fnIn.mentions, fnIn.originalMention),
                    result |-> prependMentions(fnIn.mentions, fnIn.originalMention,
                                               fallbackResponse)] >>
    /\ fnPc' = "done"
    /\ UNCHANGED <<fnIn, handlerVars>>

NextMentions == CallPrependMentions

SpecMentions == InitMentions /\ [][NextMentions]_vars

---------------------------------------------------------------------------
(* The properties. *)

\* The notification being handled, and the status that triggered it.
Current == Deref(notification)

Handling == notification # NilPointer

\* A mention that is discarded: by the bot itself, private, or direct and not
\* by the allow-listed handle.
Discarded(n) ==
    \/ n.Account.Acct = botUsername
    \/ n.Status.Visibility = "private"
    \/ (n.Status.Visibility = "direct" /\ n.Account.Acct # allowedHandle)

\* generateAIResponse returned an error: it made no completion call, or the
\* call it made failed.
GenerationFailed == completions = <<>> \/ ~completions[Len(completions)].ok

\* The body of the posted reply.
PostedBody == posts[1].toot.Status

\* The thread of a status on the network, the status first and the root last.
RECURSIVE Thread(_)
Thread(status) ==
    IF status.InReplyToID = NoParent THEN <<status>>
    ELSE <<status>> \o Thread(StatusOf(status.InReplyToID.id))

Reverse(seq) == [k \in 1..Len(seq) |-> seq[Len(seq) + 1 - k]]

\* The context lines of the n newest statuses of a thread, the oldest first.
NewestLines(status, n) ==
    Reverse([k \in 1..n |-> ContextLine(Thread(status)[k])])

\* The attachments of the n newest statuses of a thread, the newest first.
RECURSIVE NewestImages(_, _)
NewestImages(thread, n) ==
    IF n = 0 THEN <<>>
    ELSE Head(thread).MediaAttachments \o NewestImages(Tail(thread), n - 1)

\* C1: a mention by the bot itself, or private, or direct and not by the
\* allow-listed handle, makes handleMention return at once: no completion
\* call, no parent lookup, no download and no post results from it.
C1_DiscardedMentionDoesNothing ==
    (Handling /\ Discarded(Current)) =>
        /\ pc \in {"handleMention", "returned"}
        /\ completions = <<>>
        /\ lookups = <<>>
        /\ downloads = <<>>
        /\ posts = <<>>

C1_Witness ==
    /\ pc = "returned"
    /\ Handling
    /\ Current.Status.Visibility = "direct"
    /\ Current.Account.Acct \notin {botUsername, allowedHandle}
    /\ completions = <<>> /\ posts = <<>>

\* C2, as claimed: when the completion fails, the body posted is the fallback
\* message as it is, with no mention list before it.
C2_FallbackPostedBare ==
    (pc = "returned" /\ posts # <<>> /\ GenerationFailed) =>
        PostedBody = fallbackResponse

\* C2, amended: when the completion fails, the fallback message is neither
\* stripped of mentions nor cleaned, and the mention list, which is never
\* empty, is put before it: the body posted is the mention list, a space and
\* the fallback message.
C2_FallbackPostedAfterMentions ==
    (pc = "returned" /\ posts # <<>> /\ GenerationFailed) =>
        LET declared == [k \in 1..Len(Current.Status.Mentions) |->
                            Current.Status.Mentions[k].Acct]
            list == uniqueMentions(declared, Current.Account.Acct)
        IN  /\ list # <<>>
            /\ PostedBody = Join(list, <<" ">>) \o <<" ">> \o fallbackResponse

C2_Witness ==
    /\ pc = "returned"
    /\ posts # <<>>
    /\ GenerationFailed
    /\ Len(PostedBody) > Len(fallbackResponse)
    /\ HasSuffix(PostedBody, fallbackResponse)

\* C3: a mention that passes the filter has exactly one post attempt, in reply
\* to the triggering status, whatever the lookups, the downloads and the
\* completion call did; after the attempt, failed or not, handleMention has
\* returned and the loop takes the next event.
C3_ExactlyOnePostAttempt ==
    /\ Len(posts) <= 1
    /\ posts # <<>> =>
          /\ pc = "returned"
          /\ posts[1].toot.InReplyToID = Current.Status.ID
    /\ (pc = "returned" /\ Handling /\ ~Discarded(Current)) => Len(posts) = 1
    /\ pc = "returned" => ENABLED Return
    /\ pc = "loop" => ENABLED Receive

C3_Witness ==
    /\ pc = "returned"
    /\ Len(posts) = 1
    /\ ~posts[1].ok
    /\ \E k \in 1..Len(lookups) : ~lookups[k].ok
    /\ \E k \in 1..Len(downloads) : downloads[k].outcome # "ok"
    /\ GenerationFailed

\* C4: a reply is unlisted when the triggering status is public, and as
\* visible as the triggering status otherwise, whether the completion
\* succeeded or failed: no reply is public.
C4_ReplyVisibility ==
    \A k \in 1..Len(posts) :
        /\ posts[k].toot.Visibility =
              IF Current.Status.Visibility = "public" THEN "unlisted"
              ELSE Current.Status.Visibility
        /\ posts[k].toot.Visibility # "public"

C4_Witness ==
    /\ posts # <<>>
    /\ GenerationFailed
    /\ Current.Status.Visibility = "public"
    /\ posts[1].toot.Visibility = "unlisted"

\* C8, as claimed: when the fetch of an image of a supported type fails with a
\* network error, no completion call is made and the fallback message is
\* posted; and no image part without bytes or without format tag is given to
\* the completion capability.
C8_FetchErrorFailsGeneration ==
    LET fetchFailed == \E k \in 1..Len(downloads) : downloads[k].outcome = "getError"
    IN  /\ fetchFailed => completions = <<>>
        /\ (fetchFailed /\ posts # <<>>) => HasSuffix(PostedBody, fallbackResponse)
        /\ \A c \in 1..Len(completions) :
              \A k \in 1..Len(completions[c].prompt) :
                 LET segment == completions[c].prompt[k]
                 IN  segment.part = "image" =>
                        segment.Data # <<>> /\ segment.format # <<>>

\* C9: when a parent lookup fails the walk stops there with the lines and the
\* attachments of the statuses it has visited, the triggering status among
\* them, and handleMention goes on: it calls the completion capability and
\* posts.
C9_LookupFailureKeepsContext ==
    (lookups # <<>> /\ ~lookups[Len(lookups)].ok) =>
        /\ pc \in {"walked", "generate", "images", "complete", "generated", "post",
                   "returned"}
        /\ context = NewestLines(Current.Status, Len(lookups))
        /\ context[Len(context)] = ContextLine(Current.Status)
        /\ allImages = NewestImages(Thread(Current.Status), Len(lookups))
        /\ pc = "returned" => (completions # <<>> /\ Len(posts) = 1)

C9_Witness ==
    /\ pc = "returned"
    /\ Len(lookups) >= 2
    /\ ~lookups[Len(lookups)].ok
    /\ Len(context) = Len(lookups)
    /\ Len(posts) = 1

\* C6: when every lookup succeeds, the walk from the last of d statuses gives
\* the lines of the min(d, maxDepth) newest of them, the oldest first, looks
\* up min(d - 1, maxDepth) parents, none after the status that is a reply to
\* nothing, and ends, however deep the thread is.
C6_WalkGivesNewestLines ==
    LET d == Len(Thread(fnIn.status))
        allFound == \A k \in 1..Len(lookups) : lookups[k].ok
    IN  /\ Len(lookups) <= d - 1
        /\ i <= maxDepth
        /\ pc = "done" \/ ENABLED NextWalk
        /\ (pc = "done" /\ allFound) =>
              /\ Len(fnOut[1].context) = Min(d, fnIn.maxDepth)
              /\ fnOut[1].context = NewestLines(fnIn.status, Min(d, fnIn.maxDepth))
              /\ Len(lookups) = Min(d - 1, fnIn.maxDepth)

C6_Witness ==
    /\ pc = "done"
    /\ \A k \in 1..Len(lookups) : lookups[k].ok
    /\ Len(Thread(fnIn.status)) > fnIn.maxDepth
    /\ fnIn.maxDepth >= 2
    /\ Len(fnOut[1].context) = fnIn.maxDepth

\* C7: cleanResponse is idempotent.
C7_CleanIdempotent ==
    fnPc = "done" => fnOut[2] = fnOut[1]

C7_Witness ==
    /\ fnPc = "done"
    /\ Contains(fnIn, <<" ", " ">>)
    /\ Contains(fnIn, <<".", "a">>)
    /\ fnOut[1] # fnIn
    /\ fnOut[2] = fnOut[1]

\* No two spaces in a row, and every period but a last one is followed by one
\* space and no more.
PeriodsSpaced(s) ==
    /\ ~Contains(s, <<" ", " ">>)
    /\ \A k \in 1..(Len(s) - 1) :
          s[k] = "." => (s[k + 1] = " " /\ (k + 2 <= Len(s) => s[k + 2] # " "))

\* C10, as claimed: the result of cleanResponse has no two spaces in a row, no
\* space before a period, and one space and no more after every period but a
\* last one.
C10_NoSpaceBeforePeriod ==
    fnOut # <<>> =>
        /\ PeriodsSpaced(fnOut[1])
        /\ ~Contains(fnOut[1], <<" ", ".">>)

\* C10, amended: the result of cleanResponse has no two spaces in a row, and
\* one space and no more after every period but a last one; a space before a
\* period stays.
C10_PeriodsSpaced ==
    fnOut # <<>> => PeriodsSpaced(fnOut[1])

C10_Witness ==
    /\ fnOut # <<>>
    /\ Contains(fnIn, <<" ", " ">>)
    /\ Contains(fnOut[1], <<".", " ", "a">>)

\* The bot's handle as a mention, bare and with the local domain.
BotMentions ==
    {<<"@">> \o botUsername, <<"@">> \o botUsername \o <<"@">> \o localInstance}

\* C5, as claimed: the mention list put before a reply never holds the bot's
\* handle, whether the thread mentions or the original author give it bare or
\* with the local domain.
C5_BotNeverMentioned ==
    fnPc = "done" =>
        \A k \in 1..Len(fnOut[1].uniqueMentions) :
            fnOut[1].uniqueMentions[k] \notin BotMentions

===========================================================================
